---- MODULE Spec2Model ----
(***************************************************************************)
(* Dispatch core of the taxi bots: the Ride row and its status history,    *)
(* the offer messages sent to drivers with their 60 second expiry tasks,   *)
(* DriverService.accept_ride, RideService.update_ride_status/cancel_ride/  *)
(* increase_ride_cost, the Celery tasks of api/tasks.py and the driver     *)
(* bot's ride-management session.                                          *)
(*                                                                         *)
(* Django semantics kept by the model: Model.objects.get() returns a       *)
(* private copy of the row; Model.save() writes EVERY field of that copy   *)
(* back (no update_fields, no transaction, no select_for_update anywhere   *)
(* in the source), so a copy read before another writer's save overwrites  *)
(* that save.  Operations whose read and write are separate statements are *)
(* split at that point (accept_ride, increase_ride_cost,                   *)
(* check_ride_timeouts); the handlers that run in one go are one action.   *)
(***************************************************************************)
EXTENDS Integers, Sequences, FiniteSets, TLC

Rides == {"r1", "r2"}
\* the ride the full dispatch machinery of Spec runs on
MainRides == {"r1"}
Drivers == {"d1", "d2"}
None == "none"

\* AppSettings defaults
DefaultRideCost == 400
FareBoostAmount == 100
MaxFareBoosts == 3

\* bounds of the model: offer messages sent plus fare boosts made for one ride, and
\* status changes logged for one ride
MaxDispatch == 3
MaxHistory == 4

ActiveStatuses == {"assigned", "driver_enroute", "driver_arrived", "in_progress"}
CancelledStatuses == {"cancelled_by_passenger", "cancelled_by_driver", "cancelled_by_system"}
TerminalStatuses == CancelledStatuses \cup {"completed"}

\* the order in which Driver.objects.filter(...) yields the rows
DriverOrder == <<"d1", "d2">>

\* current_lat and current_lng are null
NoCoordinates == -1

Pos(d) == CHOOSE i \in 1..Len(DriverOrder) : DriverOrder[i] = d

\* a Ride row that does not exist yet
Absent ==
    [status |-> "absent", driver |-> None, fare_boosts |-> 0, estimated_cost |-> 0,
     current_cost |-> 0, final_cost |-> 0, accepted_at |-> FALSE, started_at |-> FALSE,
     completed_at |-> FALSE, cancelled_at |-> FALSE, cancellation_reason |-> ""]

\* Ride.objects.create(..., estimated_cost=estimated_cost, current_cost=estimated_cost)
NewRide ==
    [Absent EXCEPT !.status = "requested", !.estimated_cost = DefaultRideCost,
                   !.current_cost = DefaultRideCost]

\* Ride.display_cost: current_cost or estimated_cost
DisplayCost(ride) ==
    IF ride.current_cost # 0 THEN ride.current_cost ELSE ride.estimated_cost

\* handle_ride_management, complete: ride.final_cost = ride.estimated_cost
FinalCost(ride) == ride.estimated_cost

\* Ride.update_status up to self.save(): status, then the first-time-only timestamp
UpdateStatus(ride, new_status, notes) ==
    LET s == [ride EXCEPT !.status = new_status] IN
    IF new_status = "assigned" /\ ~ride.accepted_at
        THEN [s EXCEPT !.accepted_at = TRUE]
    ELSE IF new_status = "in_progress" /\ ~ride.started_at
        THEN [s EXCEPT !.started_at = TRUE]
    ELSE IF new_status = "completed" /\ ~ride.completed_at
        THEN [s EXCEPT !.completed_at = TRUE]
    ELSE IF new_status \in CancelledStatuses /\ ~ride.cancelled_at
        THEN [s EXCEPT !.cancelled_at = TRUE, !.cancellation_reason = notes]
    ELSE s

\* a boost_fare that does not look at the number of boosts made
BoostFareUnlimited(ride) ==
    IF ride.status # "requested" THEN <<"not_pending", ride>>
    ELSE <<"ok", [ride EXCEPT !.fare_boosts = @ + 1,
                              !.current_cost = DisplayCost(ride) + FareBoostAmount]>>

\* a boost_fare that adds the boost amount to the estimate instead of the current cost
BoostFareFromEstimate(ride) ==
    IF ride.fare_boosts >= MaxFareBoosts THEN <<"limit_reached", ride>>
    ELSE IF ride.status # "requested" THEN <<"not_pending", ride>>
    ELSE <<"ok", [ride EXCEPT !.fare_boosts = @ + 1,
                              !.current_cost = ride.estimated_cost + FareBoostAmount]>>

\* Ride.boost_fare: <<success, copy after the call>>
BoostFare(ride) ==
    IF ride.fare_boosts >= MaxFareBoosts THEN <<"limit_reached", ride>>
    ELSE IF ride.status # "requested" THEN <<"not_pending", ride>>
    ELSE <<"ok", [ride EXCEPT !.fare_boosts = @ + 1,
                              !.current_cost = DisplayCost(ride) + FareBoostAmount]>>

VARIABLES
    rides,          \* the rides table: [Rides -> row]
    history,        \* the ride_statuses table: [Rides -> Seq of <<status, notes>>]
    is_online,      \* Driver.is_online
    is_verified,    \* Driver.is_verified
    offers,         \* offer messages in drivers' chats and their auto_reject_ride tasks
    sends,          \* [Rides -> [Drivers -> offer messages sent so far]]
    boosts,         \* [Rides -> increase_ride_cost calls that returned (True, ride)]
    queue,          \* Celery tasks queued with .delay(), per ride
    acc,            \* accept_ride calls in progress: [Drivers -> [Rides -> frame]]
    accepted,       \* [Rides -> drivers whose accept_ride returned (True, ride)]
    boost,          \* increase_ride_cost calls in progress: [Rides -> frame]
    sweep,          \* check_ride_timeouts run in progress
    session,        \* driver bot context.user_data['active_ride']
    psession,       \* passenger conversation state per ride
    notices,        \* passenger-facing notification tasks queued, per ride
    timeouts,       \* [Drivers -> 'ride_timeout' messages received]
    totals,         \* total_rides counters of drivers and passengers
    pboost,         \* PassengerService.boost_ride_fare calls in progress: [Rides -> frame]
    reply,          \* what the last call of each service entry point returned, per ride
    ratings,        \* the ratings table: rows [ride, rated_by, rated_user, stars]
    average_rating, \* Driver.average_rating, in hundredths of a star
    rate,           \* rate_ride calls: [RateCalls -> frame]
    fin,            \* update_ride_status(.., 'completed') calls in progress
    nudges,         \* [Drivers -> 'passenger waiting' messages sent to the driver offline]
    current_km      \* Driver.current_lat/current_lng, as the distance to the pickup

vars == <<rides, history, is_online, is_verified, offers, sends, boosts, queue, acc,
          accepted, boost, sweep, session, psession, notices, timeouts, totals,
          pboost, reply, ratings, average_rating, rate, fin, nudges, current_km>>

\* the state of RideService.rate_ride and of the counters' writers
rating_vars == <<ratings, average_rating, rate, fin>>

IdleFrame == [pc |-> "idle", ride |-> Absent]
NoSession == [ride_id |-> None, status |-> None]
\* a rate_ride call that has not been made
NoRate ==
    [pc |-> "idle", user |-> None, ride |-> None, stars |-> 0, rated_user |-> None,
     driver |-> None, total_rides |-> 0, average_rating |-> 0, result |-> None]

\* no completion in progress
NoFin == [pc |-> "idle", ride |-> Absent, total_rides |-> 0, average_rating |-> 0]

RateCalls == {1, 2}

\* d1 has not shared a location, d2 is 3 km from the pickup
ParkedDrivers == [d \in Drivers |-> IF d = "d2" THEN 3 ELSE NoCoordinates]

\* distances a driver's last shared location can have to a pickup
Distances == {0, 3, 7, 12}

\* nothing rated, no rating or completion call in progress, no offline driver told
NoRatings ==
    /\ ratings = {}
    /\ average_rating = [d \in Drivers |-> 0]
    /\ rate = [c \in RateCalls |-> NoRate]
    /\ fin = [d \in Drivers |-> [r \in Rides |-> NoFin]]
    /\ nudges = [d \in Drivers |-> 0]

NoReply ==
    [increase_ride_cost |-> None, boost_ride_fare |-> None,
     update_ride_status |-> None, cancel_ride |-> None]

Init ==
    /\ rides = [r \in Rides |-> Absent]
    /\ history = [r \in Rides |-> <<>>]
    /\ is_online \in [Drivers -> BOOLEAN]
    /\ is_verified = [d \in Drivers |-> TRUE]
    /\ offers = {}
    /\ sends = [r \in Rides |-> [d \in Drivers |-> 0]]
    /\ boosts = [r \in Rides |-> 0]
    /\ queue = [r \in Rides |-> [new_ride |-> 0, boosted |-> 0, no_drivers |-> 0]]
    /\ acc = [d \in Drivers |-> [r \in Rides |-> IdleFrame]]
    /\ accepted = [r \in Rides |-> {}]
    /\ boost = [r \in Rides |-> IdleFrame]
    /\ sweep = [pc |-> "idle", stale |-> {}]
    /\ session = [d \in Drivers |-> NoSession]
    /\ psession = [r \in Rides |-> "none"]
    /\ notices = [r \in Rides |-> [assigned |-> 0, cancelled |-> 0, no_drivers |-> 0]]
    /\ timeouts = [d \in Drivers |-> 0]
    /\ totals = [driver |-> [d \in Drivers |-> 0], passenger |-> [r \in Rides |-> 0]]
    /\ pboost = [r \in Rides |-> IdleFrame]
    /\ reply = [r \in Rides |-> NoReply]
    /\ NoRatings
    /\ current_km = ParkedDrivers

\* driver.current_lat and driver.current_lng, and the geodesic distance of that
\* point to the pickup
HasLocation(d) == current_km[d] # NoCoordinates

DistanceKm(d) == current_km[d]

\* list.sort(key=lambda x: x['distance_km']): a stable sort, written as the
\* insertion of each entry behind the entries that are not farther
InsertByDistance(e, sorted) ==
    LET k == Cardinality({i \in 1..Len(sorted) : sorted[i].distance_km <= e.distance_km})
    IN  SubSeq(sorted, 1, k) \o <<e>> \o SubSeq(sorted, k + 1, Len(sorted))

RECURSIVE SortByDistance(_)
SortByDistance(list) ==
    IF list = <<>> THEN <<>>
    ELSE InsertByDistance(list[Len(list)], SortByDistance(SubSeq(list, 1, Len(list) - 1)))

\* a search that keeps the located drivers within 5 km only, as
\* DriverService.get_nearby_rides does for the rides shown to a driver
GetNearbyWithinRadius(online, verified) ==
    LET found == SelectSeq(DriverOrder, LAMBDA d : /\ online[d] /\ verified[d]
                                                  /\ HasLocation(d) /\ DistanceKm(d) <= 5)
    IN  SortByDistance([i \in 1..Len(found) |->
                            [driver |-> found[i], distance_km |-> DistanceKm(found[i])]])

\* PassengerService.get_nearby_rides_for_new_ride: every online verified driver with
\* its distance (0 without coordinates), sorted by distance
GetNearbyRidesForNewRide(online, verified) ==
    LET found == SelectSeq(DriverOrder, LAMBDA d : online[d] /\ verified[d])
    IN  SortByDistance([i \in 1..Len(found) |->
                            [driver |-> found[i],
                             distance_km |-> IF HasLocation(found[i])
                                                THEN DistanceKm(found[i]) ELSE 0]])

\* the drivers of that list, in its order
AvailableDrivers ==
    LET list == GetNearbyRidesForNewRide(is_online, is_verified)
    IN  [i \in 1..Len(list) |-> list[i].driver]

SeqToSet(s) == {s[i] : i \in 1..Len(s)}

\* post_save receiver notify_passenger_on_driver_assignment: every save of a row
\* that is assigned and has a driver queues notify_passenger_driver_assigned
AssignedSignal(n, r, ride) ==
    IF ride.status = "assigned" /\ ride.driver # None
        THEN [n EXCEPT ![r].assigned = @ + 1]
        ELSE n

\* the offers a fan-out to the drivers `to` creates: one message with accept and
\* reject buttons showing `cost`, and one auto_reject_ride task due in 60 seconds
RECURSIVE SumOver(_, _)
SumOver(f, S) ==
    IF S = {} THEN 0
    ELSE LET x == CHOOSE y \in S : TRUE IN f[x] + SumOver(f, S \ {x})

Sent(r) == SumOver(sends[r], Drivers)

NewOffers(r, to, cost) ==
    {[ride |-> r, driver |-> d, cost |-> cost,
      id |-> Sent(r) + Cardinality({e \in to : Pos(e) <= Pos(d)}),
      buttons |-> TRUE, timer |-> 1] : d \in to}

SentTo(r, to) == [d \in Drivers |-> IF d \in to THEN sends[r][d] + 1 ELSE sends[r][d]]

\* what the bound MaxDispatch counts for ride r
Dispatched(r) ==
    Sent(r) + boosts[r] + (IF boost[r].pc = "read" THEN 1 ELSE 0)
                        + (IF pboost[r].pc = "read" THEN 1 ELSE 0)

\* handle_destination_location -> create_ride_request; the post_save receiver
\* notify_drivers_on_ride_creation queues the fan-out or the no-drivers flow
CreateRide(r) ==
    /\ rides[r].status = "absent"
    /\ rides' = [rides EXCEPT ![r] = NewRide]
    /\ queue' = IF AvailableDrivers # <<>>
                    THEN [queue EXCEPT ![r].new_ride = 1]
                    ELSE [queue EXCEPT ![r].no_drivers = 1]
    /\ psession' = [psession EXCEPT ![r] = "confirm"]
    /\ UNCHANGED <<pboost, reply, history, rating_vars, nudges, current_km, is_online, is_verified, offers, sends, boosts, acc, accepted, boost,
                   sweep, session, notices, timeouts, totals>>

\* Celery task notify_drivers_about_new_ride; `ok` are the drivers whose
\* send_driver_notification succeeded
NotifyDriversAboutNewRide(r) ==
    /\ queue[r].new_ride = 1
    /\ queue' = [queue EXCEPT ![r].new_ride = 0]
    /\ IF rides[r].status # "requested"
        THEN UNCHANGED <<offers, sends>>
        ELSE \E ok \in SUBSET SeqToSet(AvailableDrivers) :
                /\ Dispatched(r) + Cardinality(ok) <= MaxDispatch
                /\ offers' = offers \cup NewOffers(r, ok, DisplayCost(rides[r]))
                /\ sends' = [sends EXCEPT ![r] = SentTo(r, ok)]
    /\ UNCHANGED <<pboost, reply, rides, history, rating_vars, nudges, current_km, is_online, is_verified, boosts, acc, accepted, boost,
                   sweep, session, psession, notices, timeouts, totals>>

\* an offer message whose buttons are gone and whose task has run is nothing anymore
Prune(os) == {o \in os : o.buttons \/ o.timer > 0}

\* Ride.save() followed by RideStatus.objects.create(...), the tail of update_status
Logged(r, status, notes) == [history EXCEPT ![r] = Append(@, <<status, notes>>)]

\* Celery task notify_drivers_about_boosted_ride, queued by a successful boost
NotifyDriversAboutBoostedRide(r) ==
    /\ queue[r].boosted > 0
    /\ queue' = [queue EXCEPT ![r].boosted = @ - 1]
    /\ IF rides[r].status # "requested"
        THEN UNCHANGED <<offers, sends>>
        ELSE \E ok \in SUBSET SeqToSet(AvailableDrivers) :
                /\ Dispatched(r) + Cardinality(ok) <= MaxDispatch
                /\ offers' = offers \cup NewOffers(r, ok, DisplayCost(rides[r]))
                /\ sends' = [sends EXCEPT ![r] = SentTo(r, ok)]
    /\ UNCHANGED <<pboost, reply, rides, history, rating_vars, nudges, current_km, is_online, is_verified, boosts, acc, accepted, boost,
                   sweep, session, psession, notices, timeouts, totals>>

\* handle_no_drivers_available: radius_km = 10
OfflineRadiusKm == 10

\* an offline nudge that goes to every verified offline driver, located or not
OfflineDriversAll == {d \in Drivers : is_verified[d] /\ ~is_online[d]}

\* handle_no_drivers_available: the verified offline drivers with a location within
\* the radius
OfflineDrivers ==
    {d \in Drivers : /\ is_verified[d] /\ ~is_online[d]
                     /\ HasLocation(d) /\ DistanceKm(d) <= OfflineRadiusKm}

\* Celery task handle_no_drivers_available: tells the passenger, then sends each
\* of those drivers a text message without buttons and without an expiry task
HandleNoDriversAvailable(r) ==
    /\ queue[r].no_drivers = 1
    /\ queue' = [queue EXCEPT ![r].no_drivers = 0]
    /\ notices' = IF rides[r].status = "requested"
                    THEN [notices EXCEPT ![r].no_drivers = @ + 1]
                    ELSE notices
    /\ nudges' = IF rides[r].status = "requested"
                    THEN [d \in Drivers |->
                            nudges[d] + (IF d \in OfflineDrivers THEN 1 ELSE 0)]
                    ELSE nudges
    /\ UNCHANGED <<pboost, reply, rides, history, rating_vars, current_km, is_online, is_verified, offers, sends, boosts, acc, accepted,
                   boost, sweep, session, psession, timeouts, totals>>

\* DriverService.accept_ride, first statement: the driver pressed the accept button
\* of offer o (handle_ride_response edits the message when the call returns, which
\* removes its buttons); active_rides.exists() refuses a driver who holds a ride
HoldsActiveRide(d) ==
    \E r \in Rides : rides[r].driver = d /\ rides[r].status \in ActiveStatuses

AcceptCheck(d, r) ==
    /\ acc[d][r].pc = "idle"
    /\ \E o \in offers :
        /\ o.ride = r /\ o.driver = d /\ o.buttons
        /\ offers' = Prune((offers \ {o}) \cup {[o EXCEPT !.buttons = FALSE]})
    /\ acc' = IF HoldsActiveRide(d)
                THEN acc
                ELSE [acc EXCEPT ![d][r] = [pc |-> "checked", ride |-> Absent]]
    /\ UNCHANGED <<pboost, reply, rides, history, rating_vars, nudges, current_km, is_online, is_verified, sends, boosts, queue, accepted, boost,
                   sweep, session, psession, notices, timeouts, totals>>

\* accept_ride: ride = Ride.objects.get(id=ride_id, status='requested');
\* Ride.DoesNotExist returns (False, "Ride not available")
AcceptRead(d, r) ==
    /\ acc[d][r].pc = "checked"
    /\ acc' = IF rides[r].status = "requested"
                THEN [acc EXCEPT ![d][r] = [pc |-> "read", ride |-> rides[r]]]
                ELSE [acc EXCEPT ![d][r] = IdleFrame]
    /\ UNCHANGED <<pboost, reply, rides, history, rating_vars, nudges, current_km, is_online, is_verified, offers, sends, boosts, queue, accepted,
                   boost, sweep, session, psession, notices, timeouts, totals>>

\* accept_ride: ride.driver = driver; ride.update_status('assigned', ...); return
\* (True, ride); handle_ride_response then stores active_ride in the session
\* an accept that moves the ride to assigned and leaves its driver unset
AcceptedRideUnbound(d, ride) == UpdateStatus(ride, "assigned", "Driver assigned")

AcceptedRide(d, ride) ==
    UpdateStatus([ride EXCEPT !.driver = d], "assigned", "Driver assigned")

AcceptWrite(d, r) ==
    /\ acc[d][r].pc = "read"
    /\ Len(history[r]) < MaxHistory
    /\ rides' = [rides EXCEPT ![r] = AcceptedRide(d, acc[d][r].ride)]
    /\ history' = Logged(r, "assigned", "Driver assigned")
    /\ notices' = AssignedSignal(notices, r, rides'[r])
    /\ accepted' = [accepted EXCEPT ![r] = @ \cup {d}]
    /\ session' = [session EXCEPT ![d] = [ride_id |-> r, status |-> "assigned"]]
    /\ acc' = [acc EXCEPT ![d][r] = IdleFrame]
    /\ UNCHANGED <<pboost, reply, rating_vars, nudges, current_km, is_online, is_verified, offers, sends, boosts, queue, boost, sweep, psession,
                   timeouts, totals>>

\* handle_ride_response, action == 'reject': only the message is edited
RejectRide(d, r) ==
    /\ \E o \in offers :
        /\ o.ride = r /\ o.driver = d /\ o.buttons
        /\ offers' = Prune((offers \ {o}) \cup {[o EXCEPT !.buttons = FALSE]})
    /\ UNCHANGED <<pboost, reply, rides, history, rating_vars, nudges, current_km, is_online, is_verified, sends, boosts, queue, acc, accepted,
                   boost, sweep, session, psession, notices, timeouts, totals>>

\* an escalation that does not skip the driver whose offer expired
NextDriverAny(exclude) ==
    IF AvailableDrivers = <<>> THEN None ELSE Head(AvailableDrivers)

\* reassign_ride_to_next_driver: the first available driver that is not the
\* excluded one, or None
NextDriver(exclude) ==
    LET rest == SelectSeq(AvailableDrivers, LAMBDA d : d # exclude) IN
    IF rest = <<>> THEN None ELSE Head(rest)

\* cancel_ride_no_drivers on a ride that is requested
CancelNoDrivers(r) ==
    /\ Len(history[r]) < MaxHistory
    /\ rides' = [rides EXCEPT
                    ![r] = UpdateStatus(@, "cancelled_by_system", "No drivers available")]
    /\ history' = Logged(r, "cancelled_by_system", "No drivers available")
    /\ notices' = [notices EXCEPT ![r].cancelled = @ + 1]

\* api.tasks.auto_reject_ride for offer o followed by reassign_ride_to_next_driver:
\* nothing when the ride is no longer requested; otherwise the message is deleted,
\* the driver is told of the timeout and the ride goes to the next driver, or is
\* cancelled when there is none or the send to that driver failed
Fired(o) ==
    Prune((offers \ {o}) \cup {[o EXCEPT !.buttons = FALSE, !.timer = @ - 1]})

Expire(o, sent) ==
    LET r == o.ride
        next == NextDriver(o.driver) IN
    /\ timeouts' = [timeouts EXCEPT ![o.driver] = @ + 1]
    /\ IF next # None /\ sent
        THEN /\ Dispatched(r) < MaxDispatch
             /\ offers' = Fired(o) \cup NewOffers(r, {next}, DisplayCost(rides[r]))
             /\ sends' = [sends EXCEPT ![r] = SentTo(r, {next})]
             /\ UNCHANGED <<rides, history, notices>>
        ELSE /\ CancelNoDrivers(r)
             /\ offers' = Fired(o)
             /\ UNCHANGED sends

AutoRejectRide(o) ==
    /\ o \in offers /\ o.timer > 0
    /\ IF rides[o.ride].status # "requested"
        THEN /\ offers' = Prune((offers \ {o}) \cup {[o EXCEPT !.timer = @ - 1]})
             /\ UNCHANGED <<rides, history, sends, notices, timeouts>>
        ELSE \E sent \in BOOLEAN : Expire(o, sent)
    /\ UNCHANGED <<pboost, reply, rating_vars, nudges, current_km, is_online, is_verified, boosts, queue, acc, accepted, boost, sweep,
                   session, psession, totals>>

\* the reason Ride.boost_fare returns with False, and "ok" for True
BoostFareMessage(ride) ==
    IF BoostFare(ride)[1] = "limit_reached" THEN "Maximum 3 fare boosts already applied"
    ELSE IF BoostFare(ride)[1] = "not_pending" THEN "Can only boost fare for pending rides"
    ELSE "ok"

\* an increase_ride_cost that does not look at what boost_fare returned
IncreaseRideCostReplyStatusOnly(is_owner, ride) ==
    IF ~is_owner THEN "Permission denied"
    ELSE IF ride.status # "requested" THEN "Ride already assigned or in progress"
    ELSE "ok"

\* what RideService.increase_ride_cost returns for the copy it read: the reason of
\* (False, reason), or "ok" for (True, ride)
IncreaseRideCostReply(is_owner, ride) ==
    IF ~is_owner THEN "Permission denied"
    ELSE IF ride.status # "requested" THEN "Ride already assigned or in progress"
    ELSE BoostFareMessage(ride)

\* what PassengerService.boost_ride_fare returns: Ride.objects.get(id=ride_id,
\* passenger=passenger, status='requested') raises DoesNotExist for a ride of another
\* passenger and for a ride that is not requested alike
BoostRideFareReply(is_owner, ride) ==
    IF ~is_owner \/ ride.status # "requested" THEN "Ride not found or cannot be boosted"
    ELSE BoostFareMessage(ride)

\* RideService.increase_ride_cost from handle_waiting_driver, up to the checks on the
\* copy it read: ride = Ride.objects.get(id=ride_id); a copy that is not requested or
\* already has the maximum of boosts returns (False, reason) with nothing written
BoostRead(r) ==
    /\ psession[r] = "waiting"
    /\ boost[r].pc = "idle"
    /\ Dispatched(r) < MaxDispatch
    /\ IF IncreaseRideCostReply(TRUE, rides[r]) = "ok"
        THEN /\ boost' = [boost EXCEPT ![r] = [pc |-> "read", ride |-> rides[r]]]
             /\ UNCHANGED reply
        ELSE /\ reply' = [reply EXCEPT
                            ![r].increase_ride_cost = IncreaseRideCostReply(TRUE, rides[r])]
             /\ UNCHANGED boost
    /\ UNCHANGED <<pboost, rides, history, rating_vars, nudges, current_km, is_online, is_verified, offers, sends, boosts, queue,
                   acc, accepted, session, psession, sweep, notices, timeouts, totals>>

\* Ride.boost_fare on that copy: self.save(), then increase_ride_cost queues
\* notify_drivers_about_boosted_ride
BoostedRide(ride) == BoostFare(ride)[2]

BoostWrite(r) ==
    /\ boost[r].pc = "read"
    /\ rides' = [rides EXCEPT ![r] = BoostedRide(boost[r].ride)]
    /\ notices' = AssignedSignal(notices, r, rides'[r])
    /\ queue' = [queue EXCEPT ![r].boosted = @ + 1]
    /\ boosts' = [boosts EXCEPT ![r] = @ + 1]
    /\ boost' = [boost EXCEPT ![r] = IdleFrame]
    /\ reply' = [reply EXCEPT ![r].increase_ride_cost = "ok"]
    /\ UNCHANGED <<pboost, history, rating_vars, nudges, current_km, is_online, is_verified, offers, sends, acc, accepted, sweep,
                   session, psession, timeouts, totals>>

\* RideService.increase_ride_cost called for a ride of another passenger
IncreaseRideCostByOther(r) ==
    /\ rides[r].status # "absent"
    /\ reply' = [reply EXCEPT
                    ![r].increase_ride_cost = IncreaseRideCostReply(FALSE, rides[r])]
    /\ UNCHANGED <<pboost, rides, history, rating_vars, nudges, current_km, is_online, is_verified, offers, sends, boosts, queue,
                   acc, accepted, boost, sweep, session, psession, notices, timeouts, totals>>

\* PassengerService.boost_ride_fare up to ride.boost_fare()'s checks, called by the
\* ride's passenger or by somebody else
BoostRideFareRead(r, is_owner) ==
    /\ rides[r].status # "absent"
    /\ pboost[r].pc = "idle"
    /\ Dispatched(r) < MaxDispatch
    /\ IF BoostRideFareReply(is_owner, rides[r]) = "ok"
        THEN /\ pboost' = [pboost EXCEPT ![r] = [pc |-> "read", ride |-> rides[r]]]
             /\ UNCHANGED reply
        ELSE /\ reply' = [reply EXCEPT
                            ![r].boost_ride_fare = BoostRideFareReply(is_owner, rides[r])]
             /\ UNCHANGED pboost
    /\ UNCHANGED <<rides, history, rating_vars, nudges, current_km, is_online, is_verified, offers, sends, boosts, queue, acc,
                   accepted, boost, sweep, session, psession, notices, timeouts, totals>>

\* boost_ride_fare: self.save() inside boost_fare, then
\* notify_drivers_about_boosted_ride.delay
BoostRideFareWrite(r) ==
    /\ pboost[r].pc = "read"
    /\ rides' = [rides EXCEPT ![r] = BoostedRide(pboost[r].ride)]
    /\ notices' = AssignedSignal(notices, r, rides'[r])
    /\ queue' = [queue EXCEPT ![r].boosted = @ + 1]
    /\ boosts' = [boosts EXCEPT ![r] = @ + 1]
    /\ pboost' = [pboost EXCEPT ![r] = IdleFrame]
    /\ reply' = [reply EXCEPT ![r].boost_ride_fare = "ok"]
    /\ UNCHANGED <<history, rating_vars, nudges, current_km, is_online, is_verified, offers, sends, acc, accepted, boost, sweep,
                   session, psession, timeouts, totals>>

\* check_ride_timeouts, the query: the requested rides created more than ten minutes
\* ago, as the copies the loop will iterate over (`old` are the rides that old)
\* a query that looks for rides waiting for their driver to arrive instead
StaleRidesAssigned == {r \in MainRides : rides[r].status = "assigned"}

StaleRides == {r \in MainRides : rides[r].status = "requested"}

SweepQuery ==
    /\ sweep.pc = "idle"
    /\ \E old \in SUBSET StaleRides :
        /\ old # {}
        /\ sweep' = [pc |-> "loop", stale |-> {<<r, rides[r]>> : r \in old}]
    /\ UNCHANGED <<pboost, reply, rides, history, rating_vars, nudges, current_km, is_online, is_verified, offers, sends, boosts, queue, acc,
                   accepted, boost, session, psession, notices, timeouts, totals>>

\* check_ride_timeouts, one turn of the loop: ride.update_status on the copy the
\* query returned, then notify_passenger_ride_cancelled.delay
SweptRide(ride) == UpdateStatus(ride, "cancelled_by_system", "No drivers available")

SweepCancel(r) ==
    /\ sweep.pc = "loop"
    /\ Len(history[r]) < MaxHistory
    /\ \E item \in sweep.stale :
        /\ item[1] = r
        /\ rides' = [rides EXCEPT ![r] = SweptRide(item[2])]
        /\ sweep' = IF sweep.stale = {item}
                        THEN [pc |-> "idle", stale |-> {}]
                        ELSE [sweep EXCEPT !.stale = @ \ {item}]
    /\ history' = Logged(r, "cancelled_by_system", "No drivers available")
    /\ notices' = [AssignedSignal(notices, r, rides'[r]) EXCEPT ![r].cancelled = @ + 1]
    /\ UNCHANGED <<pboost, reply, rating_vars, nudges, current_km, is_online, is_verified, offers, sends, boosts, queue, acc, accepted, boost,
                   session, psession, timeouts, totals>>

\* the driver bot handles one update of a driver at a time: no button of the
\* ride-management keyboard is handled while that driver's accept is being handled
DriverIdle(d) == \A r \in Rides : acc[d][r].pc = "idle"

\* the permission check of update_ride_status and cancel_ride for a driver's
\* telegram_id: ride.driver and ride.driver.user == user
DriverMayUpdate(d, ride) == ride.driver # None /\ ride.driver = d

\* handle_ride_management, the arrived and start buttons: the button is taken only
\* in the session's current status; update_ride_status reads the row, checks the
\* permission, and writes it with the new status
DriverProgress(d, from, to) ==
    LET r == session[d].ride_id IN
    /\ session[d].ride_id # None
    /\ session[d].status = from
    /\ DriverIdle(d)
    /\ IF DriverMayUpdate(d, rides[r])
        THEN /\ Len(history[r]) < MaxHistory
             /\ rides' = [rides EXCEPT ![r] = UpdateStatus(@, to, "")]
             /\ history' = Logged(r, to, "")
             /\ notices' = AssignedSignal(notices, r, rides'[r])
             /\ session' = [session EXCEPT ![d].status = to]
        ELSE UNCHANGED <<rides, history, notices, session>>
    /\ UNCHANGED <<pboost, reply, rating_vars, nudges, current_km, is_online, is_verified, offers, sends, boosts, queue, acc, accepted, boost,
                   sweep, psession, timeouts, totals>>

DriverArrived(d) == DriverProgress(d, "assigned", "driver_arrived")

StartRide(d) == DriverProgress(d, "driver_arrived", "in_progress")

\* handle_ride_management, the complete button: update_ride_status(.., 'completed')
\* with the counters, then ride.final_cost = ride.estimated_cost; ride.save(), and
\* the session's active_ride is dropped
CompleteRide(d) ==
    LET r == session[d].ride_id IN
    /\ session[d].ride_id # None
    /\ session[d].status = "in_progress"
    /\ DriverIdle(d)
    /\ IF DriverMayUpdate(d, rides[r])
        THEN /\ Len(history[r]) < MaxHistory
             /\ rides' = [rides EXCEPT
                    ![r] = [UpdateStatus(@, "completed", "") EXCEPT
                                !.final_cost = FinalCost(rides[r])]]
             /\ history' = Logged(r, "completed", "")
             /\ totals' = [totals EXCEPT !.driver[d] = @ + 1, !.passenger[r] = @ + 1]
             /\ session' = [session EXCEPT ![d] = NoSession]
        ELSE UNCHANGED <<rides, history, totals, session>>
    /\ UNCHANGED <<pboost, reply, rating_vars, nudges, current_km, is_online, is_verified, offers, sends, boosts, queue, acc, accepted, boost,
                   sweep, psession, notices, timeouts>>

\* RideService.cancel_ride called with a driver's telegram_id: cancelled_by_driver
\* when the row is bound to that driver, "Permission denied" otherwise; the
\* cancel button drops active_ride on success, the SOS button always
DriverCancelCall(d, reason, always_drop) ==
    LET r == session[d].ride_id IN
    /\ session[d].ride_id # None
    /\ DriverIdle(d)
    /\ IF DriverMayUpdate(d, rides[r])
        THEN /\ Len(history[r]) < MaxHistory
             /\ rides' = [rides EXCEPT ![r] = UpdateStatus(@, "cancelled_by_driver", reason)]
             /\ history' = Logged(r, "cancelled_by_driver", reason)
             /\ session' = [session EXCEPT ![d] = NoSession]
        ELSE /\ UNCHANGED <<rides, history>>
             /\ session' = IF always_drop
                            THEN [session EXCEPT ![d] = NoSession]
                            ELSE session
    /\ UNCHANGED <<pboost, reply, rating_vars, nudges, current_km, is_online, is_verified, offers, sends, boosts, queue, acc, accepted, boost,
                   sweep, psession, notices, timeouts, totals>>

DriverCancel(d) == DriverCancelCall(d, "Cancelled by driver", FALSE)

DriverSOS(d) == DriverCancelCall(d, "Emergency - Driver activated SOS", TRUE)

\* handle_ride_confirmation, the confirm button: only the conversation moves on
ConfirmRide(r) ==
    /\ psession[r] = "confirm"
    /\ psession' = [psession EXCEPT ![r] = "waiting"]
    /\ UNCHANGED <<pboost, reply, rides, history, rating_vars, nudges, current_km, is_online, is_verified, offers, sends, boosts, queue, acc,
                   accepted, boost, sweep, session, notices, timeouts, totals>>

\* RideService.cancel_ride called with the passenger's telegram_id, from
\* handle_ride_confirmation (cancel) or handle_waiting_driver (cancel_ride); both
\* end the conversation
PassengerCancelCall(r, state, reason) ==
    /\ psession[r] = state
    /\ boost[r].pc = "idle"
    /\ Len(history[r]) < MaxHistory
    /\ rides' = [rides EXCEPT ![r] = UpdateStatus(@, "cancelled_by_passenger", reason)]
    /\ history' = Logged(r, "cancelled_by_passenger", reason)
    /\ psession' = [psession EXCEPT ![r] = "end"]
    /\ UNCHANGED <<pboost, reply, rating_vars, nudges, current_km, is_online, is_verified, offers, sends, boosts, queue, acc, accepted, boost,
                   sweep, session, notices, timeouts, totals>>

CancelBeforeConfirmation(r) ==
    PassengerCancelCall(r, "confirm", "Cancelled before confirmation")

PassengerCancel(r) == PassengerCancelCall(r, "waiting", "Cancelled by passenger")

\* the broker delivers the auto_reject_ride task of offer o a second time
\* (at-least-once delivery): the handler will run twice with the same arguments
Redeliver(o) ==
    /\ o \in offers /\ o.timer = 1
    /\ \A x \in offers : x.timer <= 1
    /\ offers' = (offers \ {o}) \cup {[o EXCEPT !.timer = 2]}
    /\ UNCHANGED <<pboost, reply, rides, history, rating_vars, nudges, current_km, is_online, is_verified, sends, boosts, queue, acc,
                   accepted, boost, sweep, session, psession, notices, timeouts, totals>>

Next ==
    \/ \E r \in MainRides :
        \/ ConfirmRide(r)
        \/ CancelBeforeConfirmation(r)
        \/ PassengerCancel(r)
        \/ BoostRead(r)
        \/ BoostWrite(r)
        \/ SweepCancel(r)
    \/ SweepQuery
    \/ \E d \in Drivers :
        \/ DriverArrived(d)
        \/ StartRide(d)
        \/ CompleteRide(d)
        \/ DriverCancel(d)
        \/ DriverSOS(d)
    \/ \E r \in MainRides :
        \/ CreateRide(r)
        \/ NotifyDriversAboutNewRide(r)
        \/ NotifyDriversAboutBoostedRide(r)
        \/ HandleNoDriversAvailable(r)
    \/ \E d \in Drivers, r \in MainRides :
        \/ AcceptCheck(d, r)
        \/ AcceptRead(d, r)
        \/ AcceptWrite(d, r)
        \/ RejectRide(d, r)
    \/ \E o \in offers : AutoRejectRide(o)

Spec == Init /\ [][Next]_vars

\* the dispatch of one ride when the broker may deliver an expiry task twice
NextRedelivery ==
    \/ \E r \in MainRides :
        \/ CreateRide(r)
        \/ NotifyDriversAboutNewRide(r)
        \/ HandleNoDriversAvailable(r)
    \/ \E d \in Drivers, r \in MainRides :
        \/ AcceptCheck(d, r)
        \/ AcceptRead(d, r)
        \/ AcceptWrite(d, r)
        \/ RejectRide(d, r)
    \/ \E o \in offers :
        \/ AutoRejectRide(o)
        \/ Redeliver(o)

SpecRedelivery == Init /\ [][NextRedelivery]_vars

\* two rides on offer to the same drivers, and accept_ride calls of one driver
\* that may overlap
NextTwoRides ==
    \/ \E r \in Rides :
        \/ CreateRide(r)
        \/ NotifyDriversAboutNewRide(r)
        \/ HandleNoDriversAvailable(r)
    \/ \E d \in Drivers, r \in Rides :
        \/ AcceptCheck(d, r)
        \/ AcceptRead(d, r)
        \/ AcceptWrite(d, r)
    \/ \E d \in Drivers :
        \/ DriverArrived(d)
        \/ DriverCancel(d)

SpecTwoRides == Init /\ [][NextTwoRides]_vars

\* accept_ride when the broker cannot be reached: Ride.save() inside update_status
\* has written the row, then the post_save receiver notify_passenger_on_driver_assignment
\* calls .delay(), which raises (the receiver catches only ImportError); update_status
\* is left before RideStatus.objects.create and accept_ride returns
\* (False, "Error accepting ride")
AcceptWriteBrokerDown(d, r) ==
    /\ acc[d][r].pc = "read"
    /\ rides' = [rides EXCEPT ![r] = AcceptedRide(d, acc[d][r].ride)]
    /\ acc' = [acc EXCEPT ![d][r] = [pc |-> "failed", ride |-> acc[d][r].ride]]
    /\ UNCHANGED <<pboost, reply, history, rating_vars, nudges, current_km, is_online, is_verified, offers, sends, boosts, queue,
                   accepted, boost, sweep, session, psession, notices, timeouts, totals>>

\* handle_ride_response shows the error text of a failed accept; the session keeps
\* no active_ride
AcceptFailed(d, r) ==
    /\ acc[d][r].pc = "failed"
    /\ acc' = [acc EXCEPT ![d][r] = IdleFrame]
    /\ UNCHANGED <<pboost, reply, rides, history, rating_vars, nudges, current_km, is_online, is_verified, offers, sends, boosts,
                   queue, accepted, boost, sweep, session, psession, notices, timeouts, totals>>

\* increase_ride_cost when the broker cannot be reached: boost_fare has saved the
\* row, then notify_drivers_about_boosted_ride.delay raises and the call returns
\* (False, None)
BoostWriteBrokerDown(r) ==
    /\ boost[r].pc = "read"
    /\ rides' = [rides EXCEPT ![r] = BoostedRide(boost[r].ride)]
    /\ boost' = [boost EXCEPT ![r] = IdleFrame]
    /\ reply' = [reply EXCEPT ![r].increase_ride_cost = "error"]
    /\ UNCHANGED <<pboost, history, rating_vars, nudges, current_km, is_online, is_verified, offers, sends, boosts, queue, acc,
                   accepted, sweep, session, psession, notices, timeouts, totals>>

\* one ride dispatched, accepted and boosted while the broker may refuse a task
NextBrokerDown ==
    \/ \E r \in MainRides :
        \/ CreateRide(r)
        \/ NotifyDriversAboutNewRide(r)
        \/ HandleNoDriversAvailable(r)
        \/ ConfirmRide(r)
        \/ BoostRead(r)
        \/ BoostWrite(r)
        \/ BoostWriteBrokerDown(r)
    \/ \E d \in Drivers, r \in MainRides :
        \/ AcceptCheck(d, r)
        \/ AcceptRead(d, r)
        \/ AcceptWrite(d, r)
        \/ AcceptWriteBrokerDown(d, r)
        \/ AcceptFailed(d, r)
    \/ \E d \in Drivers :
        \/ DriverArrived(d)
        \/ DriverCancel(d)

SpecBrokerDown == Init /\ [][NextBrokerDown]_vars

\* the ride row after k successful boosts
BoostedRow(k) ==
    [NewRide EXCEPT !.fare_boosts = k,
                    !.current_cost = DefaultRideCost + k * FareBoostAmount]

\* a ride that exists already when the boost entry points are called: requested,
\* assigned to d1, or cancelled by its passenger, after 0..MaxFareBoosts boosts
InitBoost ==
    /\ \E k \in 0..MaxFareBoosts, st \in {"requested", "assigned", "cancelled_by_passenger"} :
        /\ rides = [r \in Rides |->
                IF r \notin MainRides THEN Absent
                ELSE IF st = "requested" THEN BoostedRow(k)
                ELSE IF st = "assigned" THEN AcceptedRide("d1", BoostedRow(k))
                ELSE UpdateStatus(BoostedRow(k), st, "Cancelled by passenger")]
        /\ history = [r \in Rides |->
                IF r \notin MainRides \/ st = "requested" THEN <<>>
                ELSE IF st = "assigned" THEN <<<<"assigned", "Driver assigned">>>>
                ELSE <<<<st, "Cancelled by passenger">>>>]
        /\ accepted = [r \in Rides |->
                IF r \in MainRides /\ st = "assigned" THEN {"d1"} ELSE {}]
        /\ session = [d \in Drivers |->
                IF d = "d1" /\ st = "assigned"
                    THEN [ride_id |-> CHOOSE r \in MainRides : TRUE, status |-> "assigned"]
                    ELSE NoSession]
        /\ psession = [r \in Rides |->
                IF r \notin MainRides THEN "none"
                ELSE IF st = "cancelled_by_passenger" THEN "end" ELSE "waiting"]
    /\ is_online = [d \in Drivers |-> TRUE]
    /\ is_verified = [d \in Drivers |-> TRUE]
    /\ offers = {}
    /\ sends = [r \in Rides |-> [d \in Drivers |-> 0]]
    /\ boosts = [r \in Rides |-> 0]
    /\ queue = [r \in Rides |-> [new_ride |-> 0, boosted |-> 0, no_drivers |-> 0]]
    /\ acc = [d \in Drivers |-> [r \in Rides |-> IdleFrame]]
    /\ boost = [r \in Rides |-> IdleFrame]
    /\ sweep = [pc |-> "idle", stale |-> {}]
    /\ notices = [r \in Rides |-> [assigned |-> 0, cancelled |-> 0, no_drivers |-> 0]]
    /\ timeouts = [d \in Drivers |-> 0]
    /\ totals = [driver |-> [d \in Drivers |-> 0], passenger |-> [r \in Rides |-> 0]]
    /\ pboost = [r \in Rides |-> IdleFrame]
    /\ reply = [r \in Rides |-> NoReply]
    /\ NoRatings
    /\ current_km = ParkedDrivers

\* the two boost entry points called on such a ride, by its passenger or by
\* somebody else, possibly at the same time
NextBoost ==
    \E r \in MainRides :
        \/ BoostRead(r)
        \/ BoostWrite(r)
        \/ IncreaseRideCostByOther(r)
        \/ \E is_owner \in BOOLEAN : BoostRideFareRead(r, is_owner)
        \/ BoostRideFareWrite(r)
        \/ NotifyDriversAboutBoostedRide(r)

SpecBoost == InitBoost /\ [][NextBoost]_vars

\* ---------------------------------------------------------------------------
\* RideService.update_ride_status and RideService.cancel_ride called with any
\* registered telegram_id.  A User row is keyed by telegram_id and is shared by the
\* passenger bot and the driver bot, so one user may hold a passenger_profile and a
\* driver_profile: d1 is such a user.

Users == {"p1", "p2"} \cup Drivers

\* hasattr(user, 'passenger_profile') and hasattr(user, 'driver_profile'); the
\* Driver row of a user is named like the user
HasPassengerProfile(u) == u \in {"p1", "p2", "d1"}

HasDriverProfile(u) == u \in Drivers

\* ride.passenger.user: r1 was requested by p1, r2 by the user who is also driver d1
PassengerOf(r) == IF r = "r1" THEN "p1" ELSE "d1"

\* a permission check that lets every driver through
MayUpdateAnyDriver(u, r, ride) ==
    \/ HasPassengerProfile(u) /\ PassengerOf(r) = u
    \/ HasDriverProfile(u)

\* the permission check of update_ride_status
MayUpdate(u, r, ride) ==
    \/ HasPassengerProfile(u) /\ PassengerOf(r) = u
    \/ HasDriverProfile(u) /\ ride.driver # None /\ ride.driver = u

\* cancel_ride, "Determine cancellation type"
CancelStatus(u, r, ride) ==
    IF HasPassengerProfile(u) /\ PassengerOf(r) = u THEN "cancelled_by_passenger"
    ELSE IF HasDriverProfile(u) /\ ride.driver # None /\ ride.driver = u
        THEN "cancelled_by_driver"
    ELSE "Permission denied"

\* "Update counters on completion"
Completed(r, ride) ==
    [driver |-> [d \in Drivers |->
                    totals.driver[d] + (IF ride.driver = d THEN 1 ELSE 0)],
     passenger |-> [totals.passenger EXCEPT ![r] = @ + 1]]

UpdateRideStatus(u, r, new_status) ==
    /\ rides[r].status # "absent"
    /\ IF MayUpdate(u, r, rides[r])
        THEN /\ Len(history[r]) < MaxHistory
             /\ rides' = [rides EXCEPT ![r] = UpdateStatus(@, new_status, "")]
             /\ history' = Logged(r, new_status, "")
             /\ notices' = AssignedSignal(notices, r, rides'[r])
             /\ totals' = IF new_status = "completed" THEN Completed(r, rides[r]) ELSE totals
             /\ reply' = [reply EXCEPT ![r].update_ride_status = "ok"]
        ELSE /\ reply' = [reply EXCEPT ![r].update_ride_status = "Permission denied"]
             /\ UNCHANGED <<rides, history, notices, totals>>
    /\ UNCHANGED <<pboost, rating_vars, nudges, current_km, is_online, is_verified, offers, sends, boosts, queue, acc, accepted,
                   boost, sweep, session, psession, timeouts>>

CancelRide(u, r) ==
    /\ rides[r].status # "absent"
    /\ IF CancelStatus(u, r, rides[r]) # "Permission denied"
        THEN /\ Len(history[r]) < MaxHistory
             /\ rides' = [rides EXCEPT
                            ![r] = UpdateStatus(@, CancelStatus(u, r, rides[r]), "Cancelled")]
             /\ history' = Logged(r, CancelStatus(u, r, rides[r]), "Cancelled")
             /\ notices' = AssignedSignal(notices, r, rides'[r])
             /\ reply' = [reply EXCEPT ![r].cancel_ride = "ok"]
        ELSE /\ reply' = [reply EXCEPT ![r].cancel_ride = "Permission denied"]
             /\ UNCHANGED <<rides, history, notices>>
    /\ UNCHANGED <<pboost, rating_vars, nudges, current_km, is_online, is_verified, offers, sends, boosts, queue, acc, accepted,
                   boost, sweep, session, psession, timeouts, totals>>

\* one of the rides exists, requested or assigned to one of the drivers
ServiceRow(b) == IF b = None THEN NewRide ELSE AcceptedRide(b, NewRide)

InitService ==
    /\ \E r0 \in Rides, b \in Drivers \cup {None} :
        /\ rides = [r \in Rides |-> IF r = r0 THEN ServiceRow(b) ELSE Absent]
        /\ history = [r \in Rides |->
                IF r # r0 \/ b = None THEN <<>> ELSE <<<<"assigned", "Driver assigned">>>>]
        /\ accepted = [r \in Rides |-> IF r # r0 \/ b = None THEN {} ELSE {b}]
    /\ is_online = [d \in Drivers |-> TRUE]
    /\ is_verified = [d \in Drivers |-> TRUE]
    /\ offers = {}
    /\ sends = [r \in Rides |-> [d \in Drivers |-> 0]]
    /\ boosts = [r \in Rides |-> 0]
    /\ queue = [r \in Rides |-> [new_ride |-> 0, boosted |-> 0, no_drivers |-> 0]]
    /\ acc = [d \in Drivers |-> [r \in Rides |-> IdleFrame]]
    /\ boost = [r \in Rides |-> IdleFrame]
    /\ sweep = [pc |-> "idle", stale |-> {}]
    /\ session = [d \in Drivers |-> NoSession]
    /\ psession = [r \in Rides |-> "waiting"]
    /\ notices = [r \in Rides |-> [assigned |-> 0, cancelled |-> 0, no_drivers |-> 0]]
    /\ timeouts = [d \in Drivers |-> 0]
    /\ totals = [driver |-> [d \in Drivers |-> 0], passenger |-> [r \in Rides |-> 0]]
    /\ pboost = [r \in Rides |-> IdleFrame]
    /\ reply = [r \in Rides |-> NoReply]
    /\ NoRatings
    /\ current_km = ParkedDrivers

NextService ==
    \E u \in Users, r \in Rides :
        \/ \E new_status \in {"driver_arrived", "in_progress", "completed"} :
                UpdateRideStatus(u, r, new_status)
        \/ CancelRide(u, r)

SpecService == InitService /\ [][NextService]_vars

\* ---------------------------------------------------------------------------
\* RideService.rate_ride, and the completion of a ride by its driver, as the
\* statements the database sees: the Driver row is read once (ride.driver is cached
\* on the ride instance) and driver.save() writes every field of that copy

Stars == {4, 5}

\* Rating.objects.filter(rated_user=driver.user)
Received(u) == {x \in ratings : x.rated_user = u}

RECURSIVE SumStars(_)
SumStars(S) ==
    IF S = {} THEN 0
    ELSE LET x == CHOOSE y \in S : TRUE IN x.stars + SumStars(S \ {x})

\* the mean sum/n as DecimalField(max_digits=3, decimal_places=2) stores it:
\* hundredths, rounded half to even
Hundredths(sum, n) ==
    LET q == (100 * sum) \div n
        rem == (100 * sum) % n IN
    IF 2 * rem > n THEN q + 1
    ELSE IF 2 * rem = n THEN q + (q % 2)
    ELSE q

\* aggregate(avg=models.Avg('stars'))['avg'] or 0
AverageOf(u) ==
    IF Received(u) = {} THEN 0
    ELSE Hundredths(SumStars(Received(u)), Cardinality(Received(u)))

\* a ratings table without its unique constraint
NoUniqueConstraint(row) == FALSE

\* unique_together = ['ride', 'rated_by', 'rated_user']: the insert of `row` is
\* refused with IntegrityError
UniqueTogether(row) ==
    \E x \in ratings :
        x.ride = row.ride /\ x.rated_by = row.rated_by /\ x.rated_user = row.rated_user

\* a rate_ride without its "Check if already rated"
NeverRated(u, r) == FALSE

\* Rating.objects.filter(ride=ride, rated_by=user).exists()
AlreadyRated(u, r) == \E x \in ratings : x.ride = r /\ x.rated_by = u

\* rate_ride up to Rating.objects.create: the ride must be completed, the rater must
\* not have rated it, and the rater must be its passenger or its driver
RateChecks(u, r, stars) ==
    LET call == [NoRate EXCEPT !.user = u, !.ride = r, !.stars = stars]
        ride == rides[r]
        d == ride.driver
        read == [call EXCEPT !.pc = "checked", !.driver = d,
                             !.total_rides = totals.driver[d],
                             !.average_rating = average_rating[d]] IN
    IF ride.status # "completed" THEN [call EXCEPT !.result = "error"]
    ELSE IF AlreadyRated(u, r) THEN [call EXCEPT !.result = "Already rated"]
    ELSE IF HasPassengerProfile(u) /\ PassengerOf(r) = u
        THEN IF d = None THEN [call EXCEPT !.result = "error"]
             ELSE [read EXCEPT !.rated_user = d]
    ELSE IF HasDriverProfile(u)
        THEN IF d = None THEN [call EXCEPT !.result = "error"]
             ELSE IF d = u THEN [read EXCEPT !.rated_user = PassengerOf(r)]
             ELSE [call EXCEPT !.result = "Permission denied"]
    ELSE [call EXCEPT !.result = "Permission denied"]

RateCheck(c, u, r, stars) ==
    /\ rate[c] = NoRate
    /\ rides[r].status # "absent"
    /\ rate' = [rate EXCEPT ![c] = RateChecks(u, r, stars)]
    /\ UNCHANGED <<rides, history, nudges, current_km, is_online, is_verified, offers, sends, boosts, queue, acc,
                   accepted, boost, sweep, session, psession, notices, timeouts, totals,
                   pboost, reply, ratings, average_rating, fin>>

\* Rating.objects.create(...); a rater without a passenger_profile returns here
RateCreate(c) ==
    LET f == rate[c]
        row == [ride |-> f.ride, rated_by |-> f.user, rated_user |-> f.rated_user,
                stars |-> f.stars] IN
    /\ f.pc = "checked"
    /\ IF UniqueTogether(row)
        THEN /\ rate' = [rate EXCEPT ![c].pc = "idle", ![c].result = "error"]
             /\ UNCHANGED ratings
        ELSE /\ ratings' = ratings \cup {row}
             /\ rate' = IF HasPassengerProfile(f.user)
                            THEN [rate EXCEPT ![c].pc = "created"]
                            ELSE [rate EXCEPT ![c].pc = "idle", ![c].result = "ok"]
    /\ UNCHANGED <<rides, history, nudges, current_km, is_online, is_verified, offers, sends, boosts, queue, acc,
                   accepted, boost, sweep, session, psession, notices, timeouts, totals,
                   pboost, reply, average_rating, fin>>

\* avg_rating = Rating.objects.filter(rated_user=driver.user).aggregate(...);
\* driver.average_rating = avg_rating or 0
RateAggregate(c) ==
    /\ rate[c].pc = "created"
    /\ rate' = [rate EXCEPT ![c].pc = "aggregated",
                            ![c].average_rating = AverageOf(rate[c].driver)]
    /\ UNCHANGED <<rides, history, nudges, current_km, is_online, is_verified, offers, sends, boosts, queue, acc,
                   accepted, boost, sweep, session, psession, notices, timeouts, totals,
                   pboost, reply, ratings, average_rating, fin>>

\* driver.save(); return True, rating
RateSave(c) ==
    LET f == rate[c] IN
    /\ f.pc = "aggregated"
    /\ average_rating' = [average_rating EXCEPT ![f.driver] = f.average_rating]
    /\ totals' = [totals EXCEPT !.driver[f.driver] = f.total_rides]
    /\ rate' = [rate EXCEPT ![c].pc = "idle", ![c].result = "ok"]
    /\ UNCHANGED <<rides, history, nudges, current_km, is_online, is_verified, offers, sends, boosts, queue, acc,
                   accepted, boost, sweep, session, psession, notices, timeouts,
                   pboost, reply, ratings, fin>>

\* handle_ride_management, the complete button, up to the permission check of
\* update_ride_status: the ride and, through ride.driver, the Driver row are read
CompleteRideRead(d, r) ==
    /\ session[d].ride_id = r /\ session[d].status = "in_progress"
    /\ fin[d][r].pc = "idle"
    /\ DriverMayUpdate(d, rides[r])
    /\ fin' = [fin EXCEPT ![d][r] =
                    [pc |-> "read", ride |-> rides[r], total_rides |-> totals.driver[d],
                     average_rating |-> average_rating[d]]]
    /\ UNCHANGED <<rides, history, nudges, current_km, is_online, is_verified, offers, sends, boosts, queue, acc,
                   accepted, boost, sweep, session, psession, notices, timeouts, totals,
                   pboost, reply, ratings, average_rating, rate>>

\* ride.update_status('completed'); ride.driver.total_rides += 1; ride.driver.save();
\* ride.passenger.total_rides += 1; ride.passenger.save(); then the handler's
\* final_cost and the end of the session
CompleteRideWrite(d, r) ==
    LET f == fin[d][r] IN
    /\ f.pc = "read"
    /\ Len(history[r]) < MaxHistory
    /\ rides' = [rides EXCEPT
                    ![r] = [UpdateStatus(f.ride, "completed", "") EXCEPT
                                !.final_cost = FinalCost(f.ride)]]
    /\ history' = Logged(r, "completed", "")
    /\ totals' = [totals EXCEPT !.driver[d] = f.total_rides + 1, !.passenger[r] = @ + 1]
    /\ average_rating' = [average_rating EXCEPT ![d] = f.average_rating]
    /\ session' = [session EXCEPT ![d] = NoSession]
    /\ fin' = [fin EXCEPT ![d][r] = NoFin]
    /\ UNCHANGED <<nudges, current_km, is_online, is_verified, offers, sends, boosts, queue, acc, accepted, boost,
                   sweep, psession, notices, timeouts, pboost, reply, ratings, rate>>

\* the ride row of a ride driven by b up to in_progress, and up to completed
InProgressRow(b) ==
    UpdateStatus(UpdateStatus(AcceptedRide(b, NewRide), "driver_arrived", ""),
                 "in_progress", "")

CompletedRow(b) ==
    [UpdateStatus(InProgressRow(b), "completed", "") EXCEPT
        !.final_cost = FinalCost(InProgressRow(b))]

InProgressHistory ==
    <<<<"assigned", "Driver assigned">>, <<"driver_arrived", "">>, <<"in_progress", "">>>>

\* r1 has been completed by driver b1, r2 is in progress with driver b2
InitRating ==
    /\ \E b1 \in Drivers, b2 \in Drivers :
        /\ rides = [r \in Rides |-> IF r = "r1" THEN CompletedRow(b1) ELSE InProgressRow(b2)]
        /\ accepted = [r \in Rides |-> IF r = "r1" THEN {b1} ELSE {b2}]
        /\ session = [d \in Drivers |->
                IF d = b2 THEN [ride_id |-> "r2", status |-> "in_progress"] ELSE NoSession]
        /\ totals = [driver |-> [d \in Drivers |-> IF d = b1 THEN 1 ELSE 0],
                     passenger |-> [r \in Rides |-> IF r = "r1" THEN 1 ELSE 0]]
    /\ history = [r \in Rides |->
            IF r = "r1" THEN Append(InProgressHistory, <<"completed", "">>)
            ELSE InProgressHistory]
    /\ is_online = [d \in Drivers |-> TRUE]
    /\ is_verified = [d \in Drivers |-> TRUE]
    /\ offers = {}
    /\ sends = [r \in Rides |-> [d \in Drivers |-> 0]]
    /\ boosts = [r \in Rides |-> 0]
    /\ queue = [r \in Rides |-> [new_ride |-> 0, boosted |-> 0, no_drivers |-> 0]]
    /\ acc = [d \in Drivers |-> [r \in Rides |-> IdleFrame]]
    /\ boost = [r \in Rides |-> IdleFrame]
    /\ sweep = [pc |-> "idle", stale |-> {}]
    /\ psession = [r \in Rides |-> "end"]
    /\ notices = [r \in Rides |-> [assigned |-> 1, cancelled |-> 0, no_drivers |-> 0]]
    /\ timeouts = [d \in Drivers |-> 0]
    /\ pboost = [r \in Rides |-> IdleFrame]
    /\ reply = [r \in Rides |-> NoReply]
    /\ NoRatings
    /\ current_km = ParkedDrivers

NextRating ==
    \/ \E c \in RateCalls :
        \/ \E u \in Users, r \in Rides, stars \in Stars : RateCheck(c, u, r, stars)
        \/ RateCreate(c)
        \/ RateAggregate(c)
        \/ RateSave(c)
    \/ \E d \in Drivers, r \in Rides :
        \/ CompleteRideRead(d, r)
        \/ CompleteRideWrite(d, r)

SpecRating == InitRating /\ [][NextRating]_vars

\* ---------------------------------------------------------------------------
\* the creation of a ride and its first fan-out when drivers may be offline or
\* not verified

InitNoDrivers ==
    /\ rides = [r \in Rides |-> Absent]
    /\ history = [r \in Rides |-> <<>>]
    /\ is_online \in [Drivers -> BOOLEAN]
    /\ is_verified \in [Drivers -> BOOLEAN]
    /\ offers = {}
    /\ sends = [r \in Rides |-> [d \in Drivers |-> 0]]
    /\ boosts = [r \in Rides |-> 0]
    /\ queue = [r \in Rides |-> [new_ride |-> 0, boosted |-> 0, no_drivers |-> 0]]
    /\ acc = [d \in Drivers |-> [r \in Rides |-> IdleFrame]]
    /\ accepted = [r \in Rides |-> {}]
    /\ boost = [r \in Rides |-> IdleFrame]
    /\ sweep = [pc |-> "idle", stale |-> {}]
    /\ session = [d \in Drivers |-> NoSession]
    /\ psession = [r \in Rides |-> "none"]
    /\ notices = [r \in Rides |-> [assigned |-> 0, cancelled |-> 0, no_drivers |-> 0]]
    /\ timeouts = [d \in Drivers |-> 0]
    /\ totals = [driver |-> [d \in Drivers |-> 0], passenger |-> [r \in Rides |-> 0]]
    /\ pboost = [r \in Rides |-> IdleFrame]
    /\ reply = [r \in Rides |-> NoReply]
    /\ NoRatings
    /\ current_km \in [Drivers -> {NoCoordinates, 3, 12}]

NextNoDrivers ==
    \/ \E r \in MainRides :
        \/ CreateRide(r)
        \/ NotifyDriversAboutNewRide(r)
        \/ HandleNoDriversAvailable(r)
        \/ ConfirmRide(r)
        \/ CancelBeforeConfirmation(r)
        \/ PassengerCancel(r)
    \/ \E d \in Drivers, r \in MainRides :
        \/ AcceptCheck(d, r)
        \/ AcceptRead(d, r)
        \/ AcceptWrite(d, r)
        \/ RejectRide(d, r)
    \/ \E o \in offers : AutoRejectRide(o)

SpecNoDrivers == InitNoDrivers /\ [][NextNoDrivers]_vars

\* toggle_online_status -> DriverService.set_driver_online_status: a verified driver
\* goes online or offline; an unverified one gets "Driver not verified"
SetDriverOnlineStatus(d, desired) ==
    /\ DriverIdle(d)
    /\ is_online' = IF is_verified[d] THEN [is_online EXCEPT ![d] = desired] ELSE is_online
    /\ UNCHANGED <<rides, history, is_verified, offers, sends, boosts, queue, acc, accepted,
                   boost, sweep, session, psession, notices, timeouts, totals, pboost,
                   reply, rating_vars, nudges, current_km>>

\* the dispatch of one ride while the drivers go online and offline
NextOnline ==
    \/ \E r \in MainRides :
        \/ CreateRide(r)
        \/ NotifyDriversAboutNewRide(r)
        \/ HandleNoDriversAvailable(r)
        \/ ConfirmRide(r)
        \/ CancelBeforeConfirmation(r)
        \/ PassengerCancel(r)
    \/ \E d \in Drivers, r \in MainRides :
        \/ AcceptCheck(d, r)
        \/ AcceptRead(d, r)
        \/ AcceptWrite(d, r)
        \/ RejectRide(d, r)
    \/ \E o \in offers : AutoRejectRide(o)
    \/ \E d \in Drivers, desired \in BOOLEAN : SetDriverOnlineStatus(d, desired)

SpecOnline == Init /\ [][NextOnline]_vars

\* the three fan-outs of one ride (first broadcast, escalation after an expiry,
\* broadcast after a boost) for drivers that are online or not, verified or not,
\* and anywhere or nowhere on the map
InitNearby ==
    /\ rides = [r \in Rides |-> Absent]
    /\ history = [r \in Rides |-> <<>>]
    /\ is_online \in [Drivers -> BOOLEAN]
    /\ is_verified \in [Drivers -> BOOLEAN]
    /\ current_km \in [Drivers -> Distances \cup {NoCoordinates}]
    /\ offers = {}
    /\ sends = [r \in Rides |-> [d \in Drivers |-> 0]]
    /\ boosts = [r \in Rides |-> 0]
    /\ queue = [r \in Rides |-> [new_ride |-> 0, boosted |-> 0, no_drivers |-> 0]]
    /\ acc = [d \in Drivers |-> [r \in Rides |-> IdleFrame]]
    /\ accepted = [r \in Rides |-> {}]
    /\ boost = [r \in Rides |-> IdleFrame]
    /\ sweep = [pc |-> "idle", stale |-> {}]
    /\ session = [d \in Drivers |-> NoSession]
    /\ psession = [r \in Rides |-> "none"]
    /\ notices = [r \in Rides |-> [assigned |-> 0, cancelled |-> 0, no_drivers |-> 0]]
    /\ timeouts = [d \in Drivers |-> 0]
    /\ totals = [driver |-> [d \in Drivers |-> 0], passenger |-> [r \in Rides |-> 0]]
    /\ pboost = [r \in Rides |-> IdleFrame]
    /\ reply = [r \in Rides |-> NoReply]
    /\ NoRatings

NextNearby ==
    \/ \E r \in MainRides :
        \/ CreateRide(r)
        \/ NotifyDriversAboutNewRide(r)
        \/ NotifyDriversAboutBoostedRide(r)
        \/ HandleNoDriversAvailable(r)
        \/ ConfirmRide(r)
        \/ BoostRead(r)
        \/ BoostWrite(r)
    \/ \E o \in offers : AutoRejectRide(o)

SpecNearby == InitNearby /\ [][NextNearby]_vars

\* the dispatch of one ride up to its first accept, with the periodic sweep: Celery
\* beat queues check_ride_timeouts every 60 seconds and the worker runs its loop to
\* the end, so the query and each turn of the loop are taken when they stay possible
NextSweep ==
    \/ \E r \in MainRides :
        \/ CreateRide(r)
        \/ NotifyDriversAboutNewRide(r)
        \/ NotifyDriversAboutBoostedRide(r)
        \/ HandleNoDriversAvailable(r)
        \/ ConfirmRide(r)
        \/ CancelBeforeConfirmation(r)
        \/ PassengerCancel(r)
        \/ BoostRead(r)
        \/ BoostWrite(r)
        \/ SweepCancel(r)
    \/ SweepQuery
    \/ \E d \in Drivers, r \in MainRides :
        \/ AcceptCheck(d, r)
        \/ AcceptRead(d, r)
        \/ AcceptWrite(d, r)
        \/ RejectRide(d, r)
    \/ \E o \in offers : AutoRejectRide(o)

SpecSweep ==
    /\ Init
    /\ [][NextSweep]_vars
    /\ WF_vars(SweepQuery)
    /\ \A r \in MainRides : WF_vars(SweepCancel(r))

\* ---------------------------------------------------------------------------
\* Properties

BoundStatuses == ActiveStatuses \cup {"completed"}

LiveOffers(r, d) == {o \in offers : o.ride = r /\ o.driver = d /\ o.buttons /\ o.timer > 0}

SystemCancellations(r) ==
    {i \in DOMAIN history[r] : history[r][i][1] = "cancelled_by_system"}

\* C1: of the accept_ride calls made on one requested ride, at most one
\* succeeds, however the calls interleave.
C1_OneAcceptSucceeds == \A r \in Rides : Cardinality(accepted[r]) <= 1

\* C2: a driver is never bound to more than one ride in an active status,
\* also when the driver accepts two requested rides at the same time.
C2_OneActiveRidePerDriver ==
    \A d \in Drivers :
        Cardinality({r \in Rides : rides[r].driver = d
                                   /\ rides[r].status \in ActiveStatuses}) <= 1

\* C3: the write that ends a fare boost never undoes an accept: a ride that
\* is assigned when the boost is written is still assigned to the same driver
\* after it.
C3_BoostKeepsAccept ==
    [][\A r \in Rides :
        (boost[r].pc = "read" /\ boost'[r].pc = "idle" /\ rides[r].status = "assigned")
            => (rides'[r].status = "assigned" /\ rides'[r].driver = rides[r].driver)]_vars

\* C4: once a ride is completed or cancelled, no operation changes its status.
C4_TerminalIsFinal ==
    [][\A r \in Rides :
        rides[r].status \in TerminalStatuses => rides'[r].status = rides[r].status]_vars

\* C5: the timeout sweep writes only to a ride that is requested at the moment
\* of the write, and a ride is cancelled for lack of a driver at most once:
\* one cancelled_by_system history entry, one passenger notice.
C5_SystemCancelOnlyRequested ==
    /\ [](\A r \in Rides :
            Cardinality(SystemCancellations(r)) <= 1 /\ notices[r].cancelled <= 1)
    /\ [][\A item \in sweep.stale :
            item \notin sweep'.stale => rides[item[1]].status = "requested"]_vars

\* C6: running auto_reject_ride twice for one offer has the effect of running
\* it once: a driver gets no more timeout notices than offers.
C6_OneExpiryPerOffer ==
    \A d \in Drivers : timeouts[d] <= SumOver([r \in Rides |-> sends[r][d]], Rides)

C8_OneLiveOffer == \A r \in Rides, d \in Drivers : Cardinality(LiveOffers(r, d)) <= 1

\* C9: once the broadcast that follows a fare boost has gone out, no offer a
\* driver can still accept shows a price below the ride's display cost.
C9_NoOfferBelowDisplayCost ==
    \A o \in offers :
        (/\ o.buttons /\ o.timer > 0
         /\ rides[o.ride].status = "requested"
         /\ boost[o.ride].pc = "idle"
         /\ queue[o.ride].boosted = 0)
            => o.cost >= DisplayCost(rides[o.ride])

\* C10: when an offer to driver d expires on a requested ride, the fresh
\* offers go to exactly the online verified drivers other than d that hold no
\* live offer for the ride.
C10_EscalationTargets ==
    [][\A r \in Rides, d \in Drivers :
        (/\ timeouts'[d] = timeouts[d] + 1
         /\ \E o \in offers : o.ride = r /\ o.driver = d /\ o \notin offers')
            => LET residual == {c \in SeqToSet(AvailableDrivers) :
                                    c # d /\ LiveOffers(r, c) = {}}
                   fresh == {o.driver : o \in {x \in offers' : x.ride = r /\ x.id > Sent(r)}}
               IN  /\ fresh \subseteq residual
                   /\ rides'[r].status = "requested" => residual \subseteq fresh]_vars

\* the expiry task of offer o runs in this step: afterwards its message has neither
\* buttons nor a pending task
ExpiryRuns(o) ==
    /\ o \in offers /\ o.timer = 1
    /\ \A x \in offers' : ~(x.ride = o.ride /\ x.id = o.id)

\* C11: the expiry task of an offer the driver has answered (accept or reject
\* pressed) has no effect: no timeout notice, no escalation, no change of the ride.
C11_AnsweredOfferTimerIsDead ==
    [][\A o \in offers :
        (~o.buttons /\ ExpiryRuns(o))
            => (timeouts' = timeouts /\ sends' = sends /\ rides' = rides)]_vars

\* C12: an expiry cancels the ride as cancelled_by_system only when no other offer
\* for the ride is live and every online verified driver has been offered it.
C12_CancelOnlyWhenExhausted ==
    [][\A o \in offers :
        (/\ ExpiryRuns(o)
         /\ rides[o.ride].status = "requested"
         /\ rides'[o.ride].status = "cancelled_by_system")
            => /\ \A c \in Drivers \ {o.driver} : LiveOffers(o.ride, c) = {}
               /\ \A c \in SeqToSet(AvailableDrivers) : sends[o.ride][c] > 0]_vars

UserCancelled(r) ==
    \E i \in DOMAIN history[r] :
        history[r][i][1] \in {"cancelled_by_passenger", "cancelled_by_driver"}

\* C14: after a passenger or driver cancelled a ride nothing is dispatched for it
\* any more: no offer is sent, no timeout notice is sent, no expiry withdraws a
\* message that still has its buttons, and no accept succeeds.
C14_NoDispatchAfterUserCancel ==
    [][\A r \in Rides :
        UserCancelled(r)
            => /\ sends'[r] = sends[r]
               /\ (\A o \in offers : o.ride = r => timeouts'[o.driver] = timeouts[o.driver])
               /\ accepted'[r] = accepted[r]
               /\ \A o \in offers : (o.ride = r /\ ExpiryRuns(o)) => ~o.buttons]_vars

\* C15: an accept_ride or increase_ride_cost call that reports failure to its caller
\* leaves the ride row and its status history as they were.
C15_FailureLeavesRideUnchanged ==
    [][\A r \in Rides :
        (\/ \E d \in Drivers : acc[d][r].pc # "failed" /\ acc'[d][r].pc = "failed"
         \/ /\ reply'[r].increase_ride_cost # reply[r].increase_ride_cost
            /\ reply'[r].increase_ride_cost # "ok")
            => (rides'[r] = rides[r] /\ history'[r] = history[r])]_vars

\* C16: the display cost of a ride never decreases.
C16_DisplayCostNeverDecreases ==
    [][\A r \in Rides :
        rides[r].status # "absent"
            => DisplayCost(rides'[r]) >= DisplayCost(rides[r])]_vars

\* C17: fare_boosts never exceeds max_fare_boosts, also when boosts of one ride
\* run at the same time.
C17_BoostsWithinLimit ==
    \A r \in Rides : rides[r].fare_boosts <= MaxFareBoosts

\* one boost has brought the ride to the limit while another call still holds a
\* copy read below the limit
C17_ConcurrentBoostAtLimit ==
    \E r \in Rides :
        /\ rides[r].fare_boosts = MaxFareBoosts
        /\ pboost[r].pc = "read"
        /\ pboost[r].ride.fare_boosts = MaxFareBoosts - 1
        /\ reply[r].increase_ride_cost = "ok"

LimitReached == "Maximum 3 fare boosts already applied"

\* a boost entry point is called on ride r in this step while the row is at the
\* limit of boosts, and returns at its checks
AttemptAtLimit(r) ==
    /\ rides[r].fare_boosts = MaxFareBoosts
    /\ reply'[r] # reply[r]
    /\ boost'[r] = boost[r] /\ pboost'[r] = pboost[r]

\* the reason that call returned
Returned(r) ==
    IF reply'[r].increase_ride_cost # reply[r].increase_ride_cost
        THEN reply'[r].increase_ride_cost
        ELSE reply'[r].boost_ride_fare

IncreaseRideCostReasons(ride) ==
    << IncreaseRideCostReply(FALSE, [ride EXCEPT !.status = "requested", !.fare_boosts = 0]),
       IncreaseRideCostReply(TRUE, [ride EXCEPT !.status = "assigned", !.fare_boosts = 0]),
       IncreaseRideCostReply(TRUE, [ride EXCEPT !.status = "requested",
                                                !.fare_boosts = MaxFareBoosts]) >>

BoostRideFareReasons(ride) ==
    << BoostRideFareReply(FALSE, [ride EXCEPT !.status = "requested", !.fare_boosts = 0]),
       BoostRideFareReply(TRUE, [ride EXCEPT !.status = "assigned", !.fare_boosts = 0]),
       BoostRideFareReply(TRUE, [ride EXCEPT !.status = "requested",
                                             !.fare_boosts = MaxFareBoosts]) >>

Distinct3(t) == t[1] # t[2] /\ t[1] # t[3] /\ t[2] # t[3]

\* C19: a boost refused at its preconditions returns, on either entry point, one of
\* three mutually distinct reasons (not the passenger, not requested, limit reached).
C19_DistinctBoostReasons ==
    [][\A r \in Rides :
        (reply'[r] # reply[r] /\ boost'[r] = boost[r] /\ pboost'[r] = pboost[r])
            => IF reply'[r].increase_ride_cost # reply[r].increase_ride_cost
                   THEN /\ Distinct3(IncreaseRideCostReasons(rides[r]))
                        /\ \E i \in 1..3 : Returned(r) = IncreaseRideCostReasons(rides[r])[i]
                   ELSE /\ Distinct3(BoostRideFareReasons(rides[r]))
                        /\ \E i \in 1..3 : Returned(r) = BoostRideFareReasons(rides[r])[i]]_vars

\* C20: every change of a ride's status appends exactly one history entry, which
\* carries the new status, and the entries already written stay as they are.
C20_HistoryMatchesTransitions ==
    [][\A r \in Rides :
        /\ Len(history'[r]) >= Len(history[r])
        /\ SubSeq(history'[r], 1, Len(history[r])) = history[r]
        /\ (rides[r].status # "absent" /\ rides'[r].status # rides[r].status)
            => /\ Len(history'[r]) = Len(history[r]) + 1
               /\ history'[r][Len(history'[r])][1] = rides'[r].status]_vars

Timestamps == {"accepted_at", "started_at", "completed_at", "cancelled_at"}

\* the statuses whose first entry sets timestamp f
StatusesOf(f) ==
    IF f = "accepted_at" THEN {"assigned"}
    ELSE IF f = "started_at" THEN {"in_progress"}
    ELSE IF f = "completed_at" THEN {"completed"}
    ELSE CancelledStatuses

\* C21: a timestamp of a ride that is set stays as it is whatever is written to the
\* ride afterwards, and a timestamp is set only if the history shows that the ride
\* entered the corresponding status.
C21_TimestampsWrittenOnce ==
    /\ [](\A r \in Rides, f \in Timestamps :
            rides[r][f] => \E i \in DOMAIN history[r] : history[r][i][1] \in StatusesOf(f))
    /\ [][\A r \in Rides, f \in Timestamps : rides[r][f] => rides'[r][f]]_vars

\* the edges of the ride lifecycle
LifecycleEdges ==
    {<<"requested", "assigned">>, <<"assigned", "driver_arrived">>,
     <<"driver_arrived", "in_progress">>, <<"in_progress", "completed">>}
        \cup (({"requested"} \cup ActiveStatuses) \X CancelledStatuses)

\* C22: every change of a ride's status is an edge of the lifecycle.
C22_OnlyLifecycleEdges ==
    [][\A r \in Rides :
        (rides[r].status # "absent" /\ rides'[r].status # rides[r].status)
            => <<rides[r].status, rides'[r].status>> \in LifecycleEdges]_vars

\* u is the passenger of ride r or the driver bound to it
IsParty(u, r) == u = PassengerOf(r) \/ u = rides[r].driver

C24_VariantNamesTheSide ==
    [][\A u \in Users, r \in Rides :
        (CancelRide(u, r) /\ reply'[r].cancel_ride = "ok" /\ rides'[r] # rides[r])
            => /\ rides'[r].status # "cancelled_by_system"
               /\ u = PassengerOf(r)
                    => rides'[r].status = "cancelled_by_passenger"
               /\ u = rides[r].driver
                    => rides'[r].status = "cancelled_by_driver"]_vars

\* the rides bound to driver d that are completed
CompletedBy(d) == {r \in Rides : rides[r].status = "completed" /\ rides[r].driver = d}

\* C25: the total_rides of every driver is the number of completed rides bound to
\* that driver, and the total_rides of a ride's passenger counts the ride exactly
\* when it is completed.
C25_CountersMatchCompletedRides ==
    /\ \A d \in Drivers : totals.driver[d] = Cardinality(CompletedBy(d))
    /\ \A r \in Rides :
        totals.passenger[r] = IF rides[r].status = "completed" THEN 1 ELSE 0

\* call c of rate_ride returns in this step
Returns(c) == rate[c].result = None /\ rate'[c].result # None

\* the ratings user u has stored for ride r
RatingsBy(T, u, r) == {x \in T : x.ride = r /\ x.rated_by = u}

C27_OneRatingPerRater ==
    \A x \in ratings, y \in ratings :
        (x.ride = y.ride /\ x.rated_by = y.rated_by /\ x.rated_user = y.rated_user)
            => x = y

\* two calls of one rater for one ride both passed the exists-check; one row is
\* stored and the other insert was refused
C27_ConcurrentDuplicateRefused ==
    \E c1 \in RateCalls, c2 \in RateCalls :
        /\ c1 # c2
        /\ rate[c1].user = rate[c2].user /\ rate[c1].ride = rate[c2].ride
        /\ rate[c1].rated_user # None /\ rate[c2].rated_user # None
        /\ rate[c1].stars # rate[c2].stars
        /\ rate[c1].result = "ok" /\ rate[c2].result = "error"
        /\ RatingsBy(ratings, rate[c1].user, rate[c1].ride)
             = {[ride |-> rate[c1].ride, rated_by |-> rate[c1].user,
                 rated_user |-> rate[c1].rated_user, stars |-> rate[c1].stars]}

\* the mean, in the precision of the field, of the stars of the ratings in T that
\* passengers gave to driver d
MeanOfDriver(T, d) ==
    LET got == {x \in T : x.rated_user = d /\ x.rated_by = PassengerOf(x.ride)} IN
    IF got = {} THEN 0 ELSE Hundredths(SumStars(got), Cardinality(got))

\* C28: when the rate_ride call of a passenger returns, the driver's average_rating
\* is the mean of the stars of all ratings passengers have given that driver; a
\* rate_ride call in which a driver rates a passenger changes no average_rating
\* that was that mean.
C28_AverageIsMeanOfAllRatings ==
    [][\A c \in RateCalls :
        /\ (Returns(c) /\ rate'[c].result = "ok"
                /\ rate[c].user = PassengerOf(rate[c].ride))
            => average_rating'[rate[c].driver] = MeanOfDriver(ratings', rate[c].driver)
        /\ (rate'[c] # rate[c] /\ rate'[c].user # PassengerOf(rate'[c].ride)
                /\ \A d \in Drivers : average_rating[d] = MeanOfDriver(ratings, d))
            => average_rating' = average_rating]_vars

\* the no-drivers task of ride r runs in this step
NoDriversTaskRuns(r) == queue[r].no_drivers = 1 /\ queue'[r].no_drivers = 0

\* C29: a ride created when no driver is online and verified queues the no-drivers
\* task and no fan-out; when that task runs on the requested ride the passenger gets
\* one no-drivers notice, every verified offline driver with a location within 10 km
\* gets one message and no other driver does, no offer and no expiry task is
\* created, and the ride is left as it is.
C29_NoDriversPath ==
    [][\A r \in Rides :
        /\ (rides[r].status = "absent" /\ rides'[r].status = "requested"
                /\ ~\E d \in Drivers : is_online[d] /\ is_verified[d])
            => queue'[r].no_drivers = 1 /\ queue'[r].new_ride = 0
        /\ NoDriversTaskRuns(r)
            => /\ UNCHANGED <<rides, history, offers, sends>>
               /\ rides[r].status = "requested"
                    => /\ notices'[r].no_drivers = notices[r].no_drivers + 1
                       /\ \A d \in Drivers :
                            nudges'[d] - nudges[d] =
                                IF /\ is_verified[d] /\ ~is_online[d]
                                   /\ HasLocation(d) /\ DistanceKm(d) <= 10
                                THEN 1 ELSE 0]_vars

\* nobody was online: the passenger was told, the located offline driver got the
\* message, the offline driver without a location did not, and the ride is still
\* requested with no offer
C29_OfflineDriverNudged ==
    \E r \in Rides :
        /\ rides[r].status = "requested"
        /\ notices[r].no_drivers = 1
        /\ nudges = [d \in Drivers |-> IF d = "d2" THEN 1 ELSE 0]
        /\ \A d \in Drivers : is_verified[d] /\ ~is_online[d]
        /\ offers = {} /\ Sent(r) = 0
        /\ queue[r].no_drivers = 0

\* C30: a fan-out that reaches some drivers creates an offer for each of them, and a
\* fan-out on a requested ride that reaches no driver tells the passenger that no
\* drivers are available or queues the no-drivers task.
C30_FailedBroadcastIsNoDriversPath ==
    [][\A r \in Rides :
        (/\ queue[r].new_ride = 1 /\ queue'[r].new_ride = 0
         /\ rides[r].status = "requested"
         /\ sends'[r] = sends[r])
            => \/ notices'[r].no_drivers = notices[r].no_drivers + 1
               \/ queue'[r].no_drivers = 1]_vars

\* ---------------------------------------------------------------------------
\* the sweep of stale requested rides

\* the ride was cancelled by the system for want of drivers: status, reason, the
\* history entry and the passenger's notification task
SweptOut(r) ==
    /\ rides[r].status = "cancelled_by_system"
    /\ rides[r].cancellation_reason = "No drivers available"
    /\ history[r] # <<>>
    /\ history[r][Len(history[r])] = <<"cancelled_by_system", "No drivers available">>
    /\ notices[r].cancelled > 0

\* C31: with the sweep scheduled fairly, a ride that is requested is eventually
\* cancelled by the system with reason 'No drivers available', its history entry
\* and the passenger's notification, unless a driver accepts it or a user cancels
\* it first
C31_StaleRideIsSweptOut ==
    \A r \in MainRides :
        (rides[r].status = "requested")
            ~> \/ SweptOut(r)
               \/ accepted[r] # {}
               \/ rides[r].status \in {"cancelled_by_passenger", "cancelled_by_driver"}

\* the sweep alone ended a ride that was never offered to anybody
C31_SweptWithoutOffer ==
    \E r \in MainRides :
        /\ SweptOut(r)
        /\ \A d \in Drivers : sends[r][d] = 0
        /\ accepted[r] = {}
        /\ Len(history[r]) = 1
        /\ sweep.pc = "idle"

\* ---------------------------------------------------------------------------
\* the reject button

\* the offers of other drivers, or for other rides, than (d, r)
OffersOfOthers(os, d, r) == {o \in os : o.driver # d \/ o.ride # r}

\* C32: a reject leaves the ride's row and history as they are, leaves every offer
\* of the other drivers as it is, and retires the rejected offer: no message with
\* buttons and no pending expiry task of it remains
C32_RejectRetiresOwnOfferOnly ==
    [][\A d \in Drivers, r \in Rides :
        RejectRide(d, r)
            => /\ UNCHANGED <<rides, history>>
               /\ OffersOfOthers(offers', d, r) = OffersOfOthers(offers, d, r)
               /\ \A o \in offers \ offers' :
                    ~\E x \in offers' :
                        x.ride = o.ride /\ x.id = o.id /\ (x.buttons \/ x.timer > 0)]_vars

\* ---------------------------------------------------------------------------
\* the candidates of a fan-out

\* the distance get_nearby_rides_for_new_ride sorts a driver by
SortKey(d) == IF HasLocation(d) THEN DistanceKm(d) ELSE 0

C34_CostIsEstimatePlusBoosts ==
    \A r \in Rides :
        rides[r].status # "absent"
            => /\ rides[r].estimated_cost = DefaultRideCost
               /\ rides[r].current_cost =
                    rides[r].estimated_cost + rides[r].fare_boosts * FareBoostAmount

\* a ride boosted twice and accepted afterwards
C34_TwiceBoostedAccepted ==
    \E r \in Rides :
        /\ rides[r].fare_boosts = 2 /\ boosts[r] = 2
        /\ rides[r].current_cost = 600
        /\ rides[r].status = "assigned"

\* C35: the boosts a ride's row counts, and the price increase it shows, keep pace
\* with the boost calls that returned success: every step changes fare_boosts by
\* the number of calls that returned success in it and current_cost by as many
\* boost amounts, so that the two totals stay equal
C35_ReportedBoostsAreCounted ==
    [][\A r \in Rides :
        rides[r].status # "absent"
            => /\ rides'[r].fare_boosts - rides[r].fare_boosts = boosts'[r] - boosts[r]
               /\ rides'[r].current_cost - rides[r].current_cost =
                    (boosts'[r] - boosts[r]) * FareBoostAmount]_vars

\* ---------------------------------------------------------------------------
\* who may be bound to a ride

\* C36: a step that binds a driver to a ride binds one who is online and verified
\* when the accept is handled and who was sent an offer for that ride
C36_BoundDriverIsOnlineVerifiedOffered ==
    [][\A r \in Rides, d \in Drivers :
        (rides'[r].driver = d /\ rides[r].driver # d)
            => is_online[d] /\ is_verified[d] /\ sends[r][d] > 0]_vars

\* ---------------------------------------------------------------------------
\* the driver bot's active_ride

\* C37: a driver session that lists a ride as active lists it with the status the
\* stored ride has, and the stored ride is bound to that driver; a cancelled ride
\* is therefore in no session
C37_SessionMatchesRide ==
    \A d \in Drivers :
        session[d].ride_id # None
            => /\ rides[session[d].ride_id].status = session[d].status
               /\ rides[session[d].ride_id].driver = d

\* ---------------------------------------------------------------------------
\* the price recorded at completion

\* C38: a step that completes a ride records as its final_cost the display_cost
\* the ride has at that moment
C38_FinalCostIsDisplayCost ==
    [][\A r \in Rides :
        (rides'[r].status = "completed" /\ rides[r].status # "completed")
            => rides'[r].final_cost = DisplayCost(rides'[r])]_vars

\* ---------------------------------------------------------------------------
\* dispatch and the passenger's confirmation

\* the passenger cancelled ride r at the confirmation step
CancelledAtConfirmation(r) ==
    \E i \in 1..Len(history[r]) :
        history[r][i] = <<"cancelled_by_passenger", "Cancelled before confirmation">>

\* C39: while the passenger has not confirmed a ride, and for a ride the passenger
\* cancelled at the confirmation step, no driver was sent an offer for it and no
\* driver accepted it
C39_NoOfferBeforeConfirmation ==
    \A r \in Rides :
        (psession[r] \in {"none", "confirm"} \/ CancelledAtConfirmation(r))
            => /\ \A d \in Drivers : sends[r][d] = 0
               /\ accepted[r] = {}
====
